---- MODULE Spec2Model ----
(***************************************************************************)
(* Model of nfs-watcher (src/src/lib.rs): the event handler that `watch`   *)
(* hands to the notify backend.  A raw notify event is stamped with the    *)
(* wall clock, converted to an FsEvent, compared with the previously       *)
(* dispatched FsEvent (FsEvent::ne, a 50 ms debounce) and, when it is an   *)
(* error or differs, handed to the JavaScript callback through the         *)
(* thread-safe function's queue.                                           *)
(***************************************************************************)
EXTENDS Integers, Sequences, FiniteSets, TLC

\* ------------------------------------------------------------------ bounds

\* Raw events the backend delivers in one behaviour.
MaxEvents == 3

\* The debounce window of FsEvent::ne, in milliseconds.
Window == 50

\* Paths the backend reports (`evt.paths[0]`).
Paths == {"/w/a", "/w/b"}

\* The paths that may be a directory when the handler asks; the others are
\* files, or absent.
DirPaths == {"/w/a"}

\* Readings of SystemTime::now() (ms).  The wall clock may stand still, jump
\* forward or be set back between two handler entries, so every reading is
\* possible at every entry.  The set holds a reading inside the window of
\* another (difference 1), one exactly Window later, and one Window + 1 later.
TimeStamps == {0, Window, Window + 1}

\* notify's EventKind, as far as the handler's match distinguishes it.
CreateKinds == {"Create"}
RenameKinds == {"Modify.Name.From", "Modify.Name.To", "Modify.Name.Both",
                "Modify.Name.Any"}
ModifyKinds == {"Modify.Data"} \cup RenameKinds
EventKinds == CreateKinds \cup ModifyKinds \cup {"Remove", "Access"}

\* The error a backend can report while running.
NotifyErrors == {"Io"}

\* notify::Result<Event>.  An Ok event carries its kind and its path list; the
\* backend's rescan notice is an Ok event of kind Other with no path at all.
Ok(kind, paths) == [ok |-> TRUE, kind |-> kind, paths |-> paths, err |-> ""]
Err(e) == [ok |-> FALSE, kind |-> "", paths |-> <<>>, err |-> e]
RawEvents ==
    {Ok(k, <<p>>) : k \in EventKinds, p \in Paths}
        \cup {Ok("Other", <<>>)}
        \cup {Err(e) : e \in NotifyErrors}

\* The kinds the handler's string literals can spell.
Vocabulary == {"add", "addDir", "modify", "remove", "removeDir", "other"}

\* --------------------------------------------------------------- FsEvent

FsEvent_new(kind, path, ts) == [kind |-> kind, path |-> path, ts |-> ts]

\* The value `evt` starts with: FsEvent::new(String::new(), PathBuf::new(), 0).
Sentinel == FsEvent_new("", "", 0)

\* Plausible slip: the AND-based rule of the project's history.
FsEvent_ne_and(self, other) ==
    IF self.kind = "other" THEN FALSE
    ELSE (self.kind # other.kind /\ self.path # other.path)
            \/ self.ts >= other.ts + Window

\* Plausible slip: the early return for "other" left out.
FsEvent_ne_no_other(self, other) ==
    self.kind # other.kind \/ self.path # other.path
        \/ self.ts >= other.ts + Window

\* Plausible slip: the kinds are not compared.
FsEvent_ne_ignores_kind(self, other) ==
    IF self.kind = "other" THEN FALSE
    ELSE self.path # other.path \/ self.ts >= other.ts + Window

\* Plausible slip: the window counted twice.
FsEvent_ne_late(self, other) ==
    IF self.kind = "other" THEN FALSE
    ELSE \/ self.kind # other.kind
         \/ self.path # other.path
         \/ self.ts >= other.ts + Window + Window

\* Plausible slip: the distance of the two readings, whichever is later.
FsEvent_ne_distance(self, other) ==
    IF self.kind = "other" THEN FALSE
    ELSE \/ self.kind # other.kind
         \/ self.path # other.path
         \/ self.ts >= other.ts + Window
         \/ other.ts >= self.ts + Window

\* PartialEq::ne for FsEvent: what `curr != prev` evaluates.  The timestamps
\* are u128 milliseconds since the epoch; `other.ts + 50` cannot overflow.
FsEvent_ne(self, other) ==
    IF self.kind = "other" THEN FALSE
    ELSE self.kind # other.kind \/ self.path # other.path
            \/ self.ts >= other.ts + Window

\* ------------------------------------------------------------ classification

\* Result<FsEvent, E>.
ResOk(v) == [ok |-> TRUE, val |-> v, err |-> ""]
ResErr(e) == [ok |-> FALSE, val |-> Sentinel, err |-> e]

\* Plausible slip: the suffix decided without asking the filesystem.
dir_suffix_never(is_dir) == ""

\* Plausible slip: a removed path is taken for a directory without asking.
dir_suffix_always(is_dir) == "Dir"

\* `if path.is_dir() { "Dir" } else { "" }`: `is_dir` is what the live
\* filesystem answers when the handler asks.
dir_suffix(is_dir) == IF is_dir THEN "Dir" ELSE ""

\* Plausible slip: the two rename arms swapped.
kind_string_swapped(kind, suffix) ==
    CASE kind \in CreateKinds -> "add" \o suffix
      [] kind = "Modify.Data" -> "modify"
      [] kind = "Modify.Name.From" -> "add" \o suffix
      [] kind = "Modify.Name.To" -> "remove" \o suffix
      [] kind \in ModifyKinds -> "other"
      [] kind = "Remove" -> "remove" \o suffix
      [] OTHER -> "other"

\* Plausible slip: the suffix appended to "modify" as well.
kind_string_modify_dir(kind, suffix) ==
    CASE kind \in CreateKinds -> "add" \o suffix
      [] kind = "Modify.Data" -> "modify" \o suffix
      [] kind = "Modify.Name.From" -> "remove" \o suffix
      [] kind = "Modify.Name.To" -> "add" \o suffix
      [] kind \in ModifyKinds -> "other"
      [] kind = "Remove" -> "remove" \o suffix
      [] OTHER -> "other"

\* The handler's `match evt.kind`.
kind_string(kind, suffix) ==
    CASE kind \in CreateKinds -> "add" \o suffix
      [] kind = "Modify.Data" -> "modify"
      [] kind = "Modify.Name.From" -> "remove" \o suffix
      [] kind = "Modify.Name.To" -> "add" \o suffix
      [] kind \in ModifyKinds -> "other"
      [] kind = "Remove" -> "remove" \o suffix
      [] OTHER -> "other"

\* `evt.paths[0]` on an empty path list: the index is out of bounds and the
\* handler panics, before the kind is looked at.
Panics(ev) == ev.ok /\ Len(ev.paths) = 0

\* `ev.and_then(|evt| Ok(FsEvent::new(..)))` for an event that does not panic.
curr_ev(ev, timestamp, is_dir) ==
    IF ev.ok
    THEN LET path == ev.paths[1]
         IN ResOk(FsEvent_new(kind_string(ev.kind, dir_suffix(is_dir)),
                              path, timestamp))
    ELSE ResErr(ev.err)

\* --------------------------------------------------------------- the gate

\* Plausible slip: `is_ok() &&` for `is_err() ||`: errors are swallowed.
invoke_swallow_errors(curr, prev) == curr.ok /\ FsEvent_ne(curr.val, prev.val)

\* `curr_ev.is_err() || curr_ev.as_ref().unwrap() != prev_ev.as_ref().unwrap()`
invoke(curr, prev) == (~curr.ok) \/ FsEvent_ne(curr.val, prev.val)

\* Plausible slip: the candidate is stored whatever it is.
assign_prev_always(curr, prev) == curr

\* `if let Ok(ev) = curr_ev.as_ref() { *prev_ev = Ok(ev.clone()); }`
assign_prev(curr, prev) == IF curr.ok THEN ResOk(curr.val) ELSE prev

\* ------------------------------------------------ the thread-safe function

\* `curr_ev.map_err(|e| Error::new(Status::GenericFailure, format!("{}", e)))`
call_value(curr) ==
    IF curr.ok THEN curr ELSE ResErr("GenericFailure: " \o curr.err)

\* Plausible slip: the newest call overtakes the waiting ones.
tsfn_call_front(queue, seq, value) == <<[seq |-> seq, value |-> value]>> \o queue

\* Plausible slip: a queue of one slot; a call that finds it taken is dropped.
tsfn_call_bounded(queue, seq, value) ==
    IF Len(queue) >= 1 THEN queue
    ELSE Append(queue, [seq |-> seq, value |-> value])

\* `tsfn.call(value, NonBlocking)` on a function created with queue size 0
\* (unbounded): the call is appended, whatever the queue holds.  `seq` is the
\* raw event's arrival number, kept with the call to tell the calls apart.
tsfn_call(queue, seq, value) == Append(queue, [seq |-> seq, value |-> value])

\* ------------------------------------------------------------------ state

VARIABLES
    evt,        \* the handler's captured `evt`: the gate's previous event
    tsfn,       \* calls queued in the thread-safe function, oldest first
    calls,      \* the JavaScript callback's invocations so far, in order
    nraw,       \* raw events the backend has delivered so far
    panicked,   \* the delivery thread died in the handler
    last,       \* the latest handler run: its input and what it saw
    session,    \* the watcher behind the JsExternal: status, options, paths
    api,        \* the latest call of add or unwatch and its result
    thr         \* the backend's delivery threads, where each stands

vars == <<evt, tsfn, calls, nraw, panicked, last, session, api, thr>>

\* The options strings passed to `watch`, by what serde_json sees in them: a
\* well-formed JSON object or not, and its field use_polling (a boolean,
\* absent, or of another type).
OptionInputs ==
    {[text |-> "{\"use_polling\":true}", json |-> TRUE, field |-> "true"],
     [text |-> "{\"use_polling\":false}", json |-> TRUE, field |-> "false"],
     [text |-> "{}", json |-> TRUE, field |-> "absent"],
     [text |-> "{\"use_polling\":1}", json |-> TRUE, field |-> "number"],
     [text |-> "use_polling", json |-> FALSE, field |-> "absent"]}

\* `serde_json::from_str::<WatchOptions>`: Ok for a JSON object whose field
\* use_polling is a boolean, an error for everything else.
from_str(o) ==
    IF o.json /\ o.field \in {"true", "false"}
    THEN [ok |-> TRUE, val |-> [use_polling |-> (o.field = "true")]]
    ELSE [ok |-> FALSE, val |-> [use_polling |-> FALSE]]

\* `impl Default for WatchOptions`.
WatchOptions_default == [use_polling |-> FALSE]

\* Plausible slip: polling as the fallback.
unwrap_or_default_polling(r) == IF r.ok THEN r.val ELSE [use_polling |-> TRUE]

\* `.unwrap_or_default()`
unwrap_or_default(r) == IF r.ok THEN r.val ELSE WatchOptions_default

\* `if options.use_polling { PollWatcher::new(..) } else
\* { RecommendedWatcher::new(..) }`
new_watcher(options) ==
    IF options.use_polling THEN "PollWatcher" ELSE "RecommendedWatcher"

\* The session `watch` returns for the options `o`; `created` is whether the
\* backend's constructor succeeded.  No path is watched yet.
NewSession(o, created) ==
    [status |-> IF created THEN "live" ELSE "failed",
     opts |-> o,
     backend |-> new_watcher(unwrap_or_default(from_str(o))),
     watched |-> {}]

\* `api` before the first call of add or unwatch.
NoCall ==
    [op |-> "none", path |-> "", ok |-> TRUE, before |-> {},
     prev |-> ResOk(Sentinel), nraw |-> 0]

\* The backend's delivery threads.
Threads == {"t1", "t2"}

\* A delivery thread outside the handler.
Idle ==
    [pc |-> "idle", seq |-> 0, ev |-> Err(""), ts |-> 0, isdir |-> FALSE,
     prev |-> ResOk(Sentinel), curr |-> ResErr("")]

\* `last` before the first handler run.
NoRun ==
    [seq |-> 0, ev |-> Err(""), ts |-> 0, prev |-> ResOk(Sentinel),
     isdir |-> FALSE, curr |-> ResErr(""), outcome |-> "none"]

\* The record of a handler run: the raw event, the clock reading, the gate's
\* previous event at entry, what is_dir answered and the converted event.
Run(ev, timestamp, is_dir, curr, outcome) ==
    [seq |-> nraw + 1, ev |-> ev, ts |-> timestamp, prev |-> evt,
     isdir |-> is_dir, curr |-> curr, outcome |-> outcome]

\* What `watch` sets up besides the watcher: the gate holds the sentinel and
\* no call has been made.
HandlerInit ==
    /\ evt = ResOk(Sentinel)
    /\ tsfn = <<>>
    /\ calls = <<>>
    /\ nraw = 0
    /\ panicked = FALSE
    /\ last = NoRun
    /\ api = NoCall
    /\ thr = [t \in Threads |-> Idle]

\* A live session on the native backend (watch("{}", callback)) after add
\* has registered every path.
Init ==
    /\ HandlerInit
    /\ \E o \in OptionInputs :
          /\ o.text = "{}"
          /\ session = [NewSession(o, TRUE) EXCEPT !.watched = Paths]

\* The closure `event_handler`, run by the backend's delivery thread for the
\* raw event `ev`; the clock reads `timestamp` and the filesystem answers
\* `is_dir` for the event's first path.  A panic unwinds the delivery thread:
\* no later raw event reaches the handler.
event_handler(ev, timestamp, is_dir) ==
    /\ ~panicked
    /\ nraw' = nraw + 1
    /\ UNCHANGED <<calls, session, api, thr>>
    /\ IF Panics(ev)
       THEN /\ panicked' = TRUE
            /\ UNCHANGED <<evt, tsfn>>
            /\ last' = Run(ev, timestamp, FALSE, ResErr("panic"), "panic")
       ELSE LET curr == curr_ev(ev, timestamp, is_dir)
            IN /\ panicked' = FALSE
               /\ IF invoke(curr, evt)
                  THEN /\ evt' = assign_prev(curr, evt)
                       /\ tsfn' = tsfn_call(tsfn, nraw + 1, call_value(curr))
                  ELSE UNCHANGED <<evt, tsfn>>
               /\ last' = Run(ev, timestamp, is_dir, curr, "returned")

\* What is_dir() can answer for the first path of `ev`: false when there is
\* no path to ask about or the path is no directory.
IsDirAnswers(ev) ==
    IF ev.ok /\ Len(ev.paths) > 0 /\ ev.paths[1] \in DirPaths
    THEN BOOLEAN ELSE {FALSE}

\* What the backend of a live session can report: errors and notices without
\* a path at any time, events for the paths it was told to watch.
Emits(ev) ==
    /\ session.status = "live"
    /\ (ev.ok /\ Len(ev.paths) > 0) => ev.paths[1] \in session.watched

\* The backend delivers a raw event.
Deliver == \E ev \in RawEvents, timestamp \in TimeStamps :
    /\ Emits(ev)
    /\ nraw < MaxEvents
    /\ \E is_dir \in IsDirAnswers(ev) : event_handler(ev, timestamp, is_dir)

\* The host's main thread takes the oldest queued call and invokes the
\* JavaScript callback with it: callback(err) for an error, and
\* callback(null, <the event as JSON>) for an event.
JsCallback ==
    /\ tsfn # <<>>
    /\ calls' = Append(calls, [seq |-> Head(tsfn).seq,
                               err |-> ~Head(tsfn).value.ok])
    /\ tsfn' = Tail(tsfn)
    /\ UNCHANGED <<evt, nraw, panicked, last, session, api, thr>>

Next == Deliver \/ JsCallback

Spec == Init /\ [][Next]_vars

\* The consumer's thread keeps draining the queue.
FairSpec == Spec /\ WF_vars(JsCallback)

\* ------------------------------------------------ vocabulary of the claims

\* The latest raw event was converted to an FsEvent (no error, no panic).
Classified == last.outcome = "returned" /\ last.curr.ok

\* The call made for raw event number i is waiting in the queue.
Queued(i) == \E k \in DOMAIN tsfn : tsfn[k].seq = i

\* The JavaScript callback has been invoked for raw event number i.
Invoked(i) == \E k \in DOMAIN calls : calls[k].seq = i

\* tsfn.call was made for the latest raw event.
LastDispatched == Queued(last.seq) \/ Invoked(last.seq)

\* ... and it was made with an error.
LastDispatchedAsError ==
    \/ \E k \in DOMAIN tsfn : tsfn[k].seq = last.seq /\ ~tsfn[k].value.ok
    \/ \E k \in DOMAIN calls : calls[k].seq = last.seq /\ calls[k].err

\* The latest event has the kind and the path of the gate's previous event.
SameAsPrevious ==
    /\ last.curr.val.kind = last.prev.val.kind
    /\ last.curr.val.path = last.prev.val.path

\* ------------------------------------------------------------------ claims

\* C1 (as stated): a classified event, not "other", with the kind and the
\* path of the gate's previous event and a timestamp 0 to 50 ms after it, 50
\* included, is suppressed: no call is made for it.
C1_SuppressedUpTo50 ==
    (/\ Classified
     /\ last.curr.val.kind # "other"
     /\ SameAsPrevious
     /\ last.ts - last.prev.val.ts >= 0
     /\ last.ts - last.prev.val.ts <= Window)
        => ~LastDispatched

\* C2: a classified event, not "other", is dispatched whenever its kind
\* differs from the previous kind, or its path from the previous path, or its
\* timestamp is 51 ms or more after the previous one; one of the three is
\* enough.
C2_AnyDifferenceAdmits ==
    (/\ Classified
     /\ last.curr.val.kind # "other"
     /\ \/ last.curr.val.kind # last.prev.val.kind
        \/ last.curr.val.path # last.prev.val.path
        \/ last.ts >= last.prev.val.ts + Window + 1)
        => /\ LastDispatched
           /\ ~LastDispatchedAsError
           /\ evt = ResOk(last.curr.val)

\* C2's case: the same kind on another path inside the window is dispatched.
C2_Witness ==
    /\ Classified
    /\ last.curr.val.kind = last.prev.val.kind
    /\ last.curr.val.path # last.prev.val.path
    /\ last.ts >= last.prev.val.ts
    /\ last.ts < last.prev.val.ts + Window
    /\ LastDispatched

\* C3: a raw event that classifies to "other" is never dispatched, whatever
\* the gate holds and whatever the clock reads, and it leaves the gate's
\* previous event as it was.
C3_OtherNeverDispatched ==
    (Classified /\ last.curr.val.kind = "other")
        => /\ ~LastDispatched
           /\ evt = last.prev

\* C3's case: an "other" event arrives, a window or more after a dispatched
\* event that the gate still holds.
C3_Witness ==
    /\ Classified
    /\ last.curr.val.kind = "other"
    /\ last.prev.val.kind = "add"
    /\ last.ts >= last.prev.val.ts + Window
    /\ evt = last.prev
    /\ ~LastDispatched

\* C4: a raw event that carries a backend error is dispatched as an error,
\* whatever the gate holds, and never changes the gate's previous event.
C4_ErrorsBypassDedup ==
    (last.outcome = "returned" /\ ~last.ev.ok)
        => /\ LastDispatchedAsError
           /\ evt = last.prev
           /\ evt.ok

\* C4's case: two errors back to back, after an event was dispatched; both
\* errors are dispatched and the gate still holds the event.
C4_Witness ==
    /\ last.seq = 3
    /\ ~last.ev.ok
    /\ LastDispatchedAsError
    /\ \/ \E k \in DOMAIN tsfn : tsfn[k].seq = 2 /\ ~tsfn[k].value.ok
       \/ \E k \in DOMAIN calls : calls[k].seq = 2 /\ calls[k].err
    /\ evt.val.kind = "modify"

\* C5 (as stated): an Ok raw event with an empty path list is answered with
\* one error call; the gate's previous event stays and the delivery thread
\* goes on.
C5_NoPathIsDeliveryError ==
    (last.outcome # "none" /\ last.ev.ok /\ Len(last.ev.paths) = 0)
        => /\ LastDispatchedAsError
           /\ evt = last.prev
           /\ ~panicked

\* C6: every converted event has a kind of the vocabulary; every event handed
\* to the callback has a kind of the vocabulary other than "other" and a
\* non-empty path, and is never the sentinel the gate starts with.
C6_ClosedVocabulary ==
    /\ Classified => last.curr.val.kind \in Vocabulary
    /\ \A k \in DOMAIN tsfn :
          tsfn[k].value.ok =>
              /\ tsfn[k].value.val.kind \in Vocabulary \ {"other"}
              /\ tsfn[k].value.val.path # ""
              /\ tsfn[k].value.val # Sentinel
    /\ evt.val # Sentinel =>
          /\ evt.val.kind \in Vocabulary \ {"other"}
          /\ evt.val.path # ""

\* C6's case: events with and without the Dir suffix wait for the callback
\* and the latest raw event was converted to "other".
C6_Witness ==
    /\ Len(tsfn) = 2
    /\ tsfn[1].value.val.kind = "removeDir"
    /\ tsfn[2].value.val.kind = "modify"
    /\ Classified
    /\ last.curr.val.kind = "other"

\* What the gate does with a duplicate: the kind and the path of the previous
\* event, and a timestamp less than a window after it.
DuplicateInWindow ==
    SameAsPrevious /\ last.ts < last.prev.val.ts + Window

\* The call made for the latest raw event, if any, is behind every other one.
LastCallIsNewest ==
    /\ \A k \in DOMAIN tsfn : tsfn[k].seq = last.seq => k = Len(tsfn)
    /\ \A k \in DOMAIN calls :
          calls[k].seq = last.seq => (k = Len(calls) /\ tsfn = <<>>)

\* C7 (as stated): the rename-from event of a rename is dispatched, and so is
\* the rename-to event that follows it.
C7_BothDispatched ==
    (last.outcome = "returned" /\ last.ev.ok)
        => /\ last.ev.kind = "Modify.Name.From" => LastDispatched
           /\ (/\ last.ev.kind = "Modify.Name.To"
               /\ last.prev.val.kind \in {"remove", "removeDir"})
                  => LastDispatched

\* C7 (amended): a rename-from event is converted to "remove"/"removeDir" and
\* dispatched unless it duplicates the gate's previous event inside the
\* window; either way the gate then holds a removal of the old path.  The
\* rename-to event that follows is converted to "add"/"addDir" and always
\* dispatched, behind every earlier call.  Every other rename mode is
\* converted to "other".
C7_RenameSplit ==
    (last.outcome = "returned" /\ last.ev.ok)
        => /\ last.ev.kind = "Modify.Name.From" =>
                /\ last.curr.val.kind \in {"remove", "removeDir"}
                /\ evt.val.kind = last.curr.val.kind
                /\ evt.val.path = last.ev.paths[1]
                /\ LastDispatched <=> ~DuplicateInWindow
           /\ last.ev.kind = "Modify.Name.To" =>
                /\ last.curr.val.kind \in {"add", "addDir"}
                /\ last.prev.val.kind \in {"remove", "removeDir"} =>
                      /\ LastDispatched
                      /\ LastCallIsNewest
                      /\ evt = ResOk(last.curr.val)
           /\ last.ev.kind \in RenameKinds \ {"Modify.Name.From", "Modify.Name.To"}
                => last.curr.val.kind = "other"

\* C7's case: a rename of /w/b to the directory /w/a; the calls for "remove"
\* of the old path and "addDir" of the new one wait in that order.
C7_Witness ==
    /\ last.ev.kind = "Modify.Name.To"
    /\ last.seq = 2
    /\ Len(tsfn) = 2
    /\ tsfn[1].seq = 1
    /\ tsfn[1].value.val = last.prev.val
    /\ tsfn[1].value.val.kind = "remove"
    /\ tsfn[1].value.val.path = "/w/b"
    /\ tsfn[2].seq = 2
    /\ tsfn[2].value.val.kind = "addDir"
    /\ tsfn[2].value.val.path = "/w/a"

\* C8: a creation event is converted to "addDir" exactly when its first path
\* is a directory when the handler asks, and to "add" otherwise; a data
\* modification is converted to "modify", directory or not.
C8_DirectorySuffix ==
    (last.outcome = "returned" /\ last.ev.ok)
        => /\ last.ev.kind \in CreateKinds =>
                last.curr.val.kind = (IF last.isdir THEN "addDir" ELSE "add")
           /\ last.ev.kind = "Modify.Data" => last.curr.val.kind = "modify"

\* C8's case: a path dispatched as "add" is reported as created again when
\* the filesystem says it is a directory: the kind follows that answer.
C8_Witness ==
    /\ last.ev.kind \in CreateKinds
    /\ last.isdir
    /\ last.curr.val.kind = "addDir"
    /\ last.prev.val.kind = "add"
    /\ last.prev.val.path = last.curr.val.path

\* The arrival numbers of the raw events the callback has been, or is still
\* to be, invoked for, in the order of the invocations.
DispatchOrder ==
    [k \in 1..(Len(calls) + Len(tsfn)) |->
        IF k <= Len(calls) THEN calls[k].seq ELSE tsfn[k - Len(calls)].seq]

\* C9: the callback's invocations follow the raw events' arrival order: no
\* two are swapped and none stands for two raw events; each is made for one
\* raw event that has arrived, and the newest carries that event's path and
\* timestamp (or its error).
C9_OrderPreserved ==
    /\ \A j, k \in DOMAIN DispatchOrder :
          j < k => DispatchOrder[j] < DispatchOrder[k]
    /\ \A k \in DOMAIN DispatchOrder : DispatchOrder[k] \in 1..nraw
    /\ \A k \in DOMAIN tsfn :
          tsfn[k].seq = last.seq =>
              /\ tsfn[k].value.ok = last.ev.ok
              /\ tsfn[k].value.ok =>
                    /\ tsfn[k].value.val.path = last.ev.paths[1]
                    /\ tsfn[k].value.val.ts = last.ts

\* C9's case: three raw events, the second suppressed; the callback has been
\* invoked for the first and the call for the third waits.
C9_Witness ==
    /\ nraw = 3
    /\ Len(calls) = 1
    /\ calls[1].seq = 1
    /\ Len(tsfn) = 1
    /\ tsfn[1].seq = 3

\* The gate admitted the latest raw event: an error, or an event that is not
\* "other" and no duplicate inside the window.
Admitted ==
    /\ last.outcome = "returned"
    /\ \/ ~last.curr.ok
       \/ last.curr.val.kind # "other" /\ ~DuplicateInWindow

\* Calls and invocations made for raw event number i.
Dispatches(i) ==
    Cardinality({k \in DOMAIN tsfn : tsfn[k].seq = i})
        + Cardinality({k \in DOMAIN calls : calls[k].seq = i})

\* Nothing admitted is dropped or doubled, however many calls wait, and the
\* delivery thread can always run the handler for the next raw event.
C10_NoDropNoBlock ==
    /\ Admitted => Dispatches(last.seq) = 1
    /\ \A i \in 1..nraw : Dispatches(i) <= 1
    /\ (~panicked /\ nraw < MaxEvents) => ENABLED Deliver

\* C10: every admitted event and every error is enqueued without blocking
\* the delivery thread and, the consumer draining the queue, leads to exactly
\* one invocation of the callback.
C10_ExactlyOnce ==
    /\ []C10_NoDropNoBlock
    /\ \A i \in 1..MaxEvents : Queued(i) ~> (Invoked(i) /\ Dispatches(i) = 1)

\* C10's case: the consumer lags two calls behind after one invocation.
C10_Witness ==
    /\ Len(calls) = 1
    /\ Len(tsfn) = 2
    /\ Admitted
    /\ Queued(last.seq)


-----------------------------------------------------------------------------
\* The session: watch, add, unwatch, and the drop of the watcher.

\* Before `watch` is called.
NoSession ==
    [status |-> "none",
     opts |-> [text |-> "", json |-> FALSE, field |-> "absent"],
     backend |-> "",
     watched |-> {}]

SessionInit ==
    /\ HandlerInit
    /\ session = NoSession

\* `watch(opts, callback)`: parse the options, build the backend, hand it to
\* JavaScript as an external.  `created` is the backend constructor's result.
watch(o, created) ==
    /\ session.status = "none"
    /\ session' = NewSession(o, created)
    /\ UNCHANGED <<evt, tsfn, calls, nraw, panicked, last, api, thr>>

\* `Watcher::watch(path, NonRecursive)`: registers a path that exists and
\* reports an error for one that does not.
Watcher_watch(watched, dir, exists) ==
    IF exists
    THEN [ok |-> TRUE, watched |-> watched \cup {dir}]
    ELSE [ok |-> FALSE, watched |-> watched]

\* `Watcher::unwatch(path)`: removes a registered path and reports an error
\* for a path that was not registered.
Watcher_unwatch(watched, dir) ==
    IF dir \in watched
    THEN [ok |-> TRUE, watched |-> watched \ {dir}]
    ELSE [ok |-> FALSE, watched |-> watched]

\* Plausible slip: the backend's result is dropped (`let _ = ..`).
map_err_ignored(ok) == TRUE

\* `.map_err(|e| Error::new(..))?`: the caller gets the backend's failure.
map_err(ok) == ok

\* The record of a call of add or unwatch.
Call(op, dir, r) ==
    [op |-> op, path |-> dir, ok |-> map_err(r.ok),
     before |-> session.watched, prev |-> evt, nraw |-> nraw]

\* `add(ext, dir)`
add(dir, exists) ==
    /\ session.status = "live"
    /\ LET r == Watcher_watch(session.watched, dir, exists)
       IN /\ session' = [session EXCEPT !.watched = r.watched]
          /\ api' = Call("add", dir, r)
    /\ UNCHANGED <<evt, tsfn, calls, nraw, panicked, last, thr>>

\* `unwatch(ext, dir)`
unwatch(dir) ==
    /\ session.status = "live"
    /\ LET r == Watcher_unwatch(session.watched, dir)
       IN /\ session' = [session EXCEPT !.watched = r.watched]
          /\ api' = Call("unwatch", dir, r)
    /\ UNCHANGED <<evt, tsfn, calls, nraw, panicked, last, thr>>

\* The external is collected and the boxed watcher dropped: the backend stops
\* and the handler with its ThreadsafeFunction handle goes away.  Nothing
\* aborts the ThreadsafeFunction, so the calls it holds stay queued.
Drop ==
    /\ session.status = "live"
    /\ session' = [session EXCEPT !.status = "dropped"]
    /\ UNCHANGED <<evt, tsfn, calls, nraw, panicked, last, api, thr>>

\* The raw events of the session runs: data changes of the paths, and errors.
SessionEvents ==
    {Ok("Modify.Data", <<p>>) : p \in Paths}
        \cup {Err(e) : e \in NotifyErrors}

\* The clock readings of the session runs: one window apart.
SessionTimes == {0, Window}

SessionDeliver == \E ev \in SessionEvents, timestamp \in SessionTimes :
    /\ Emits(ev)
    /\ nraw < MaxEvents
    /\ \E is_dir \in IsDirAnswers(ev) : event_handler(ev, timestamp, is_dir)

Create == \E o \in OptionInputs, created \in BOOLEAN : watch(o, created)

Add == \E dir \in Paths, exists \in BOOLEAN : add(dir, exists)

Unwatch == \E dir \in Paths : unwatch(dir)

SessionNext ==
    Create \/ Add \/ Unwatch \/ SessionDeliver \/ JsCallback \/ Drop

SessionSpec == SessionInit /\ [][SessionNext]_vars

\* C11: once the watcher is dropped the callback is not invoked again, not
\* even for calls that were queued before the drop.
C11_NoCallbackAfterDrop ==
    [][session.status = "dropped" => calls' = calls]_vars


\* C12: the backend is the polling one exactly when the options string parses
\* and has use_polling = true, and the native one for every other options
\* string; no options string makes the creation fail; the backend chosen at
\* creation never changes.
C12_BackendSelection ==
    /\ [](session.status # "none" =>
            /\ session.backend \in {"PollWatcher", "RecommendedWatcher"}
            /\ session.backend = "PollWatcher"
                 <=> (session.opts.json /\ session.opts.field = "true")
            /\ \A o \in OptionInputs : NewSession(o, TRUE).status = "live")
    /\ [][session.status # "none" =>
            /\ session'.backend = session.backend
            /\ session'.opts = session.opts]_vars

\* A session created with an options string whose use_polling is not a
\* boolean runs on the native backend, and has dispatched an event.
C12_Witness ==
    /\ session.status = "live"
    /\ session.opts.field = "number"
    /\ session.backend = "RecommendedWatcher"
    /\ api.op = "add"
    /\ LastDispatched

\* The backend reports changes of the path `p`.
DeliverFor(p) == \E timestamp \in SessionTimes :
    /\ Emits(Ok("Modify.Data", <<p>>))
    /\ nraw < MaxEvents
    /\ event_handler(Ok("Modify.Data", <<p>>), timestamp, FALSE)

-----------------------------------------------------------------------------
\* The gate's state.

\* No normalized event has been dispatched: every call so far was an error.
NoneDispatched ==
    /\ \A k \in DOMAIN calls : calls[k].err
    /\ \A k \in DOMAIN tsfn : ~tsfn[k].value.ok

\* The waiting call number k is the newest one made with a normalized event.
NewestNormalized(k) ==
    /\ tsfn[k].value.ok
    /\ \A j \in DOMAIN tsfn : j > k => ~tsfn[j].value.ok

\* C14: after any raw events the gate's previous is a classified event, never
\* an error: the sentinel while no normalized event was dispatched, the most
\* recently dispatched normalized event afterwards; it becomes the candidate
\* exactly when a classified candidate is admitted and stays as it was on
\* suppression and on errors.
C14_GateState ==
    /\ evt.ok
    /\ evt = ResOk(Sentinel) <=> NoneDispatched
    /\ \A k \in DOMAIN tsfn : NewestNormalized(k) => tsfn[k].value = evt
    /\ last.outcome # "none" =>
         IF Classified /\ LastDispatched
         THEN evt = ResOk(last.curr.val)
         ELSE evt = last.prev

\* An error was dispatched after a normalized event: previous still holds that
\* event, which waits in the queue before the error.
C14_Witness ==
    /\ last.outcome = "returned"
    /\ ~last.curr.ok
    /\ LastDispatchedAsError
    /\ evt = last.prev
    /\ evt # ResOk(Sentinel)
    /\ \E k \in DOMAIN tsfn : NewestNormalized(k) /\ k < Len(tsfn)


-----------------------------------------------------------------------------
\* The handler step by step, called from several backend threads.

\* Where a thread is inside the handler: before the test of line 144, before
\* the assignment to previous, before tsfn.call.
Inside == {"decide", "write", "call"}

\* Plausible slip: the handler shared without exclusion (a gate behind a
\* shared reference with unsynchronised interior mutability).
can_enter_always(th) == TRUE

\* The handler is a `move` closure that owns `evt` and takes `&mut evt`: an
\* FnMut, callable only through an exclusive reference, so a call can begin
\* only while no other call is running.
can_enter(th) == \A u \in Threads : th[u].pc \notin Inside

\* A backend thread has a raw event to hand to the handler.
Arrive(t, ev) ==
    /\ thr[t].pc = "idle"
    /\ Emits(ev)
    /\ ~Panics(ev)
    /\ nraw + Cardinality({u \in Threads : thr[u].pc = "ready"}) < MaxEvents
    /\ thr' = [thr EXCEPT ![t] = [Idle EXCEPT !.pc = "ready", !.ev = ev]]
    /\ UNCHANGED <<evt, tsfn, calls, nraw, panicked, last, session, api>>

\* The call begins: `prev_ev = &mut evt`, the clock is read and the raw event
\* converted.
Enter(t, timestamp, is_dir) ==
    /\ thr[t].pc = "ready"
    /\ can_enter(thr)
    /\ nraw' = nraw + 1
    /\ thr' = [thr EXCEPT ![t] =
                  [pc |-> "decide", seq |-> nraw + 1, ev |-> thr[t].ev,
                   ts |-> timestamp, isdir |-> is_dir, prev |-> evt,
                   curr |-> curr_ev(thr[t].ev, timestamp, is_dir)]]
    /\ UNCHANGED <<evt, tsfn, calls, panicked, last, session, api>>

\* The record of the handler run that thread t completes.
RunOf(t) ==
    [seq |-> thr[t].seq, ev |-> thr[t].ev, ts |-> thr[t].ts,
     prev |-> thr[t].prev, isdir |-> thr[t].isdir, curr |-> thr[t].curr,
     outcome |-> "returned"]

\* The test of line 144, on the previous event the call has read; a suppressed
\* event ends the call.
Decide(t) ==
    /\ thr[t].pc = "decide"
    /\ IF invoke(thr[t].curr, thr[t].prev)
       THEN /\ thr' = [thr EXCEPT ![t].pc = "write"]
            /\ UNCHANGED last
       ELSE /\ thr' = [thr EXCEPT ![t] = Idle]
            /\ last' = RunOf(t)
    /\ UNCHANGED <<evt, tsfn, calls, nraw, panicked, session, api>>

\* `*prev_ev = Ok(ev.clone())` for a classified event.
Write(t) ==
    /\ thr[t].pc = "write"
    /\ evt' = assign_prev(thr[t].curr, evt)
    /\ thr' = [thr EXCEPT ![t].pc = "call"]
    /\ UNCHANGED <<tsfn, calls, nraw, panicked, last, session, api>>

\* `tsfn.call(..)`, and the call ends.
Enqueue(t) ==
    /\ thr[t].pc = "call"
    /\ tsfn' = tsfn_call(tsfn, thr[t].seq, call_value(thr[t].curr))
    /\ thr' = [thr EXCEPT ![t] = Idle]
    /\ last' = RunOf(t)
    /\ UNCHANGED <<evt, calls, nraw, panicked, session, api>>

ThreadArrives == \E t \in Threads, ev \in SessionEvents : Arrive(t, ev)

ThreadEnters == \E t \in Threads, timestamp \in SessionTimes :
    \E is_dir \in IsDirAnswers(thr[t].ev) : Enter(t, timestamp, is_dir)

ThreadDecides == \E t \in Threads : Decide(t)

ThreadWrites == \E t \in Threads : Write(t)

ThreadEnqueues == \E t \in Threads : Enqueue(t)

ConcNext ==
    \/ ThreadArrives
    \/ ThreadEnters
    \/ ThreadDecides
    \/ ThreadWrites
    \/ ThreadEnqueues
    \/ JsCallback

ConcSpec == Init /\ [][ConcNext]_vars

\* The waiting calls k and k+1 carry the same kind and path less than one
\* window apart.
BothDispatched(k) ==
    /\ tsfn[k].value.ok
    /\ tsfn[k + 1].value.ok
    /\ ~FsEvent_ne(tsfn[k + 1].value.val, tsfn[k].value.val)

\* C15: the handler's steps for one raw event (read previous, decide, write
\* previous, enqueue) never interleave with those for another, whichever
\* threads deliver: at most one call is inside the handler, previous is not
\* changed under a call between its read and its write, no update of previous
\* is lost, and two identical raw events inside the window are never both
\* dispatched.
C15_Serialized ==
    /\ Cardinality({t \in Threads : thr[t].pc \in Inside}) <= 1
    /\ \A t \in Threads : thr[t].pc \in {"decide", "write"} => thr[t].prev = evt
    /\ \A t \in Threads :
         thr[t].pc = "call" =>
            /\ evt = assign_prev(thr[t].curr, thr[t].prev)
            /\ \A k \in DOMAIN tsfn : tsfn[k].seq < thr[t].seq
    /\ \A k \in DOMAIN tsfn : k < Len(tsfn) => ~BothDispatched(k)
    /\ (last.outcome # "none" /\ \A t \in Threads : thr[t].pc # "call") =>
         IF Classified /\ LastDispatched
         THEN evt = ResOk(last.curr.val)
         ELSE evt = last.prev

\* One thread is inside the handler with an admitted event, about to write
\* previous, while another thread waits with an identical raw event.
C15_Witness ==
    \E t \in Threads, u \in Threads :
        /\ t # u
        /\ thr[t].pc = "write"
        /\ thr[t].curr.ok
        /\ thr[u].pc = "ready"
        /\ thr[u].ev = thr[t].ev


-----------------------------------------------------------------------------
\* An unbroken stream of identical events.

MaxStream == 5

\* The clock readings of the stream.
StreamTimes == {0, 30, Window, 60, 90, 120}

\* The one raw event the stream repeats.
StreamEvent == Ok("Modify.Data", <<"/w/b">>)

\* The next event of the stream, its reading not below the one before.
StreamDeliver == \E timestamp \in StreamTimes :
    /\ timestamp >= last.ts
    /\ Emits(StreamEvent)
    /\ nraw < MaxStream
    /\ event_handler(StreamEvent, timestamp, FALSE)

StreamNext == StreamDeliver \/ JsCallback

StreamSpec == Init /\ [][StreamNext]_vars

\* C16: in a stream of identical events with non-decreasing readings the
\* window starts at the last dispatched event, not at the last seen one: an
\* event is dispatched exactly when it is the first or arrives a window or
\* more after the last dispatched one, a suppressed event leaves previous (the
\* start of the window) where it was, and so no event a window or more after
\* the last dispatched one is ever held back.
C16_AnchoredAtLastDispatched ==
    last.outcome = "returned" =>
        /\ LastDispatched <=>
              \/ last.prev = ResOk(Sentinel)
              \/ last.ts >= last.prev.val.ts + Window
        /\ ~LastDispatched => evt = last.prev
        /\ evt.val.ts = IF LastDispatched THEN last.ts ELSE last.prev.val.ts
        /\ last.ts >= evt.val.ts
        /\ last.ts < evt.val.ts + Window

\* Five events with readings up to 120, the first, third and fifth
\* dispatched with the readings 0, 60 and 120.
C16_Witness ==
    /\ nraw = 5
    /\ last.ts = 120
    /\ Len(tsfn) = 3
    /\ tsfn[1].seq = 1 /\ tsfn[1].value.val.ts = 0
    /\ tsfn[2].seq = 3 /\ tsfn[2].value.val.ts = 60
    /\ tsfn[3].seq = 5 /\ tsfn[3].value.val.ts = 120


-----------------------------------------------------------------------------
\* What the gate compares, and with what.

\* The waiting call k carries the kind and the path of the latest event and a
\* reading less than a window before it.
QueuedTwin(k) ==
    /\ tsfn[k].seq # last.seq
    /\ tsfn[k].value.ok
    /\ tsfn[k].value.val.kind = last.curr.val.kind
    /\ tsfn[k].value.val.path = last.curr.val.path
    /\ last.ts < tsfn[k].value.val.ts + Window

\* C17: the gate compares a candidate with the one most recently dispatched
\* event and nothing older: whether a classified event is dispatched is settled
\* by it and previous alone, so an event that differs from previous in kind or
\* path is dispatched even when an identical event was dispatched less than a
\* window before it.
C17_OnlyPreviousCounts ==
    Classified =>
        /\ LastDispatched <=>
              /\ last.curr.val.kind # "other"
              /\ \/ ~SameAsPrevious
                 \/ last.ts >= last.prev.val.ts + Window
        /\ \A k \in DOMAIN tsfn :
              (QueuedTwin(k) /\ ~SameAsPrevious /\ last.curr.val.kind # "other")
                  => LastDispatched

\* A, B, A inside one window, all three dispatched: the first and the third
\* call carry the same kind and path less than a window apart.
C17_Witness ==
    /\ Len(tsfn) = 3
    /\ last.seq = 3
    /\ QueuedTwin(1)
    /\ tsfn[3].seq = 3
    /\ tsfn[2].value.ok
    /\ \/ tsfn[2].value.val.kind # last.curr.val.kind
       \/ tsfn[2].value.val.path # last.curr.val.path
    /\ tsfn[1].value.val.ts <= tsfn[2].value.val.ts
    /\ tsfn[2].value.val.ts <= last.ts

\* C18: the clock may go back; a candidate with the kind and path of previous
\* and a reading below previous.ts, by however much, is suppressed and leaves
\* previous as it was, and such a candidate is suppressed exactly as long as
\* its reading is below previous.ts + 50.
C18_EarlierReadingSuppressed ==
    (Classified /\ SameAsPrevious) =>
        /\ last.ts < last.prev.val.ts => (~LastDispatched /\ evt = last.prev)
        /\ last.curr.val.kind # "other" =>
              (LastDispatched <=> last.ts >= last.prev.val.ts + Window)

\* A candidate read more than a window before previous was suppressed.
C18_Witness ==
    /\ Classified
    /\ SameAsPrevious
    /\ last.curr.val.kind # "other"
    /\ last.ts + Window < last.prev.val.ts
    /\ ~LastDispatched
    /\ evt = last.prev

\* C19: a removal or rename-from of a path that is no directory when the
\* handler asks (because it is gone) is classified "remove"; "removeDir" is
\* produced only when is_dir() finds a directory at that moment.
C19_VanishedIsNotDir ==
    last.outcome = "returned" =>
        /\ (last.ev.ok /\ last.ev.kind \in {"Remove", "Modify.Name.From"}) =>
              last.curr.val.kind = IF last.isdir THEN "removeDir" ELSE "remove"
        /\ (last.curr.ok /\ last.curr.val.kind = "removeDir") =>
              /\ last.isdir
              /\ last.ev.kind \in {"Remove", "Modify.Name.From"}

\* The path was dispatched as a created directory, and its removal, seen when
\* the directory is gone, is dispatched as "remove".
C19_Witness ==
    /\ Classified
    /\ last.ev.kind = "Remove"
    /\ ~last.isdir
    /\ last.prev.val.kind = "addDir"
    /\ last.prev.val.path = last.curr.val.path
    /\ last.curr.val.kind = "remove"
    /\ LastDispatched

====
